---- MODULE Spec2Model ----
(***************************************************************************)
(* Model of roget: the Wordle scoring function (Correctness::check), the   *)
(* game simulator (Wordle::play) and the entropy guesser                   *)
(* (Unoptimized::guess).                                                   *)
(*                                                                         *)
(* A Word is a tuple of WORD_SIZE letters; a letter is a one-character     *)
(* string (the code compares bytes for equality only).  A mask is a tuple  *)
(* of WORD_SIZE values among "Correct", "Misplaced", "Wrong".              *)
(***************************************************************************)
EXTENDS Integers, Sequences, FiniteSets, TLC

VARIABLES
    pc,             \* position of the running operation
    answer,         \* play: the hidden answer / check: the answer argument
    guessed_word,   \* play: the word the guesser returned / check: the guess argument
    rv,             \* check: the returned mask (<<>> before the call returns)
    kind,           \* which Guesser implementation is plugged into play
    script,         \* scripted test guesser: its fixed words and the turn it switches on
    guesses_made,   \* scripted test guesser: its call counter
    remaining,      \* Unoptimized: the candidate pool, a function word -> occurrence count
    initial,        \* the pool the Unoptimized guesser was constructed with (history variable)
    pool_before,    \* the pool at entry of the latest Unoptimized::guess call (history variable)
    scored,         \* per candidate of the latest call: its mask distribution and entropy (history variable)
    past_guesses,   \* play: the Vec of Guess records / direct call: the slice passed in
    i,              \* play: the loop variable
    result,         \* play: the Option<usize> returned (Pending while running)
    returned        \* play: every word guesser.guess has returned, in call order (history variable)

vars == <<pc, answer, guessed_word, rv, kind, script, guesses_made, remaining,
          initial, pool_before, scored, past_guesses, i, result, returned>>

----------------------------------------------------------------------------
(* Program constants *)

WORD_SIZE == 5
TRIES_BEFORE_LOSS == 32

(* Bounds of the model *)

\* check is explored on every pair of words over the first NumLetters letters
NumLetters == 2
\* occurrence counts of the initial pool range over 0..MaxWeight
MaxWeight == 2
\* the occurrence counts of an initial pool sum to at most MaxTotal
MaxTotal == 5

Positions == 1..WORD_SIZE

Correct == "Correct"
Misplaced == "Misplaced"
Wrong == "Wrong"

----------------------------------------------------------------------------
(* Correctness::check *)

\* first loop: rv[i] = Correct and used[i] = true where the letters agree
FirstPass(a, g) ==
    [rv   |-> [p \in Positions |-> IF a[p] = g[p] THEN Correct ELSE Wrong],
     used |-> [p \in Positions |-> a[p] = g[p]]]

\* Matching without the consumption bitmap (answer.contains(&guessed_word[i]))
MatchingIgnoringUsed(st, a, g, p) ==
    {j \in Positions : st.rv[p] # Correct /\ a[j] = g[p]}

\* the positions j the inner loop can stop at for guess position p
Matching(st, a, g, p) ==
    {j \in Positions : st.rv[p] # Correct /\ ~st.used[j] /\ a[j] = g[p]}

\* inner loop over j for one p: the first matching j is consumed
SecondPassAt(st, a, g, p) ==
    LET m == Matching(st, a, g, p)
    IN  IF m = {} THEN st
        ELSE LET j == CHOOSE x \in m : \A y \in m : x <= y
             IN  [rv   |-> [st.rv EXCEPT ![p] = Misplaced],
                  used |-> [st.used EXCEPT ![j] = TRUE]]

\* SecondPass visiting the guess positions in decreasing order
RECURSIVE SecondPassDescending(_, _, _, _)
SecondPassDescending(st, a, g, from) ==
    IF from > WORD_SIZE THEN st
    ELSE SecondPassDescending(SecondPassAt(st, a, g, WORD_SIZE + 1 - from), a, g, from + 1)

\* second loop, p = from .. WORD_SIZE in increasing order
RECURSIVE SecondPass(_, _, _, _)
SecondPass(st, a, g, from) ==
    IF from > WORD_SIZE THEN st
    ELSE SecondPass(SecondPassAt(st, a, g, from), a, g, from + 1)

\* check(answer, guessed_word)
Check(a, g) == SecondPass(FirstPass(a, g), a, g, 1).rv

AllCorrect == [p \in Positions |-> Correct]

----------------------------------------------------------------------------
(* Words *)

Alphabet == <<"a", "z", "b", "c", "d">>
Letters == {Alphabet[k] : k \in 1..NumLetters}
SmallWords == [Positions -> Letters]

hello == <<"h", "e", "l", "l", "o">>
pqrst == <<"p", "q", "r", "s", "t">>
llohe == <<"l", "l", "o", "h", "e">>
world == <<"w", "o", "r", "l", "d">>
lllll == <<"l", "l", "l", "l", "l">>
azzaz == <<"a", "z", "z", "a", "z">>
aaabb == <<"a", "a", "a", "b", "b">>
moved == <<"m", "o", "v", "e", "d">>
which == <<"w", "h", "i", "c", "h">>
stare == <<"s", "t", "a", "r", "e">>

\* the (answer, guess) pairs of the check_correctness tests
TestPairs ==
    {<<hello, hello>>, <<hello, pqrst>>, <<hello, llohe>>,
     <<hello, world>>, <<hello, lllll>>, <<azzaz, aaabb>>}

CheckInputs == (SmallWords \X SmallWords) \cup TestPairs

\* the legal words of the simulator, and a word outside them
Dictionary == {moved, which, stare, hello}
AllWords == Dictionary \cup {azzaz}

\* check on the words of the games, computed once: Graded[a][g] = check(a, g)
Graded == [a \in AllWords |-> [g \in AllWords |-> Check(a, g)]]

NoWord == <<>>
EmptyPool == [w \in {} |-> 0]
Restrict(pool, S) == [w \in S |-> pool[w]]

RECURSIVE SumCounts(_, _)
SumCounts(pool, S) ==
    IF S = {} THEN 0
    ELSE LET w == CHOOSE x \in S : TRUE
         IN  pool[w] + SumCounts(pool, S \ {w})

\* the pools an Unoptimized guesser can be constructed with
PoolWords == {moved, which, stare, hello, azzaz}
Pools ==
    {pool \in UNION {[S -> 0..MaxWeight] : S \in SUBSET PoolWords} :
        SumCounts(pool, DOMAIN pool) <= MaxTotal}

----------------------------------------------------------------------------
(* Unoptimized::guess *)

\* PruneMask with the arguments of check exchanged
PruneMaskSwapped(word, last) == Graded[last.word][word]

\* the mask the prune step computes for a pool word against the last guess
PruneMask(word, last) == Graded[word][last.word]

\* Prune that retains every word
PruneNothing(pool, past) == pool

\* Prune against the oldest guess of the history instead of the latest
PruneOnFirst(pool, past) ==
    IF past = <<>> THEN pool
    ELSE Restrict(pool, {word \in DOMAIN pool : PruneMask(word, past[1]) = past[1].mask})

\* remaining.retain(...): skipped when past_guesses is empty
Prune(pool, past) ==
    IF past = <<>> THEN pool
    ELSE LET last == past[Len(past)]
         IN  Restrict(pool, {word \in DOMAIN pool : PruneMask(word, last) = last.mask})

\* the mask the scoring loop computes for candidate `word` and pool entry `future_guess`
ScoreMask(word, future_guess) == Graded[word][future_guess]

\* masks_with_probabilities: per mask, the sum of future_occurrence_count over the
\* pool entries that give it.  The code adds future_occurrence_count /
\* total_occurrence_count per entry; the common divisor is kept apart, so an entry
\* of the map is this sum over total_occurrence_count.
MasksWithProbabilities(word, pool) ==
    [mask \in {ScoreMask(word, fg) : fg \in DOMAIN pool} |->
        SumCounts(pool, {fg \in DOMAIN pool : ScoreMask(word, fg) = mask})]

RECURSIVE PowerProduct(_, _)
PowerProduct(f, S) ==
    IF S = {} THEN 1
    ELSE LET x == CHOOSE y \in S : TRUE
         IN  (f[x] ^ f[x]) * PowerProduct(f, S \ {x})

\* entropy = -sum(p * log2(p)), an f64.  With p = c / total for the integer sums c
\* of one pass, entropy = log2(total) - log2(xx) / total where xx is the product of
\* c^c: for one total, a larger entropy is a smaller xx.  A probability of 0 gives
\* 0 * log2(0) = 0 * -inf = NaN, and so does a total of 0 (0 / 0); NaN makes the
\* sum NaN.  Rounding of the f64 operations is not modelled.
Entropy(mwp) ==
    IF \E mask \in DOMAIN mwp : mwp[mask] = 0
    THEN [nan |-> TRUE, xx |-> 0]
    ELSE [nan |-> FALSE, xx |-> PowerProduct(mwp, DOMAIN mwp)]

\* f64 comparisons of two entropies of one pass: false when either is NaN
F64Greater(e1, e2) == ~e1.nan /\ ~e2.nan /\ e1.xx < e2.xx
F64Equal(e1, e2) == ~e1.nan /\ ~e2.nan /\ e1.xx = e2.xx

NoCandidate == [some |-> FALSE]
Candidate(word, pool, sc) ==
    [some |-> TRUE, word |-> word, occurrence_count |-> pool[word],
     expected_information |-> sc[word].entropy]

\* the condition under which the scanned candidate replaces best
Better(cand, best) ==
    \/ ~best.some
    \/ F64Greater(cand.expected_information, best.expected_information)
    \/ /\ F64Equal(cand.expected_information, best.expected_information)
       /\ cand.occurrence_count > best.occurrence_count

\* best after the loop body has run for cand
Pick(cand, best) == IF Better(cand, best) THEN cand ELSE best

\* for (&word, &occurrence_count) in &self.remaining, in the order `order`, from
\* its k-th word on; sc holds what the loop body computes for each word.  (The
\* one-element sets here and below bind a value that is computed once.)
RECURSIVE Scan(_, _, _, _, _)
Scan(order, pool, sc, k, best) ==
    IF k > Len(order) THEN best
    ELSE CHOOSE last \in {Scan(order, pool, sc, k + 1, next) :
                            next \in {Pick(Candidate(order[k], pool, sc), best)}} : TRUE

\* the orders a HashMap may iterate the words of S in
RECURSIVE Orders(_)
Orders(S) ==
    IF S = {} THEN {<<>>}
    ELSE UNION {{<<x>> \o o : o \in Orders(S \ {x})} : x \in S}

\* what the loop body computes for the candidate `word`
ScoreOf(word, pool) ==
    CHOOSE score \in {[masks |-> mwp, entropy |-> Entropy(mwp)] :
                         mwp \in {MasksWithProbabilities(word, pool)}} : TRUE

\* what the loop body computes for every candidate of the pool: a function on
\* the words of the pool, built entry by entry
RECURSIVE ScoredOver(_, _)
ScoredOver(pool, S) ==
    IF S = {} THEN <<>>
    ELSE LET word == CHOOSE x \in S : TRUE
         IN  (word :> ScoreOf(word, pool)) @@ ScoredOver(pool, S \ {word})

Scored(pool) == ScoredOver(pool, DOMAIN pool)

\* one call guess(past): prune, then either the scan finds a best candidate, which
\* is returned and control goes to `back`, or best.expect(...) panics
UnoptimizedGuess(past, back) ==
    \E pruned \in {Prune(remaining, past)} : \E sc \in {Scored(pruned)} :
        /\ pool_before' = remaining
        /\ remaining' = pruned
        /\ scored' = sc
        /\ \/ /\ DOMAIN pruned = {}
              /\ pc' = "expect_failed"
              /\ UNCHANGED guessed_word
           \/ /\ DOMAIN pruned # {}
              /\ guessed_word' \in
                    {Scan(order, pruned, sc, 1, NoCandidate).word :
                        order \in Orders(DOMAIN pruned)}
              /\ pc' = back

----------------------------------------------------------------------------
(* The guessers of the play_wordle tests: a struct counting its calls that returns
   one word on one chosen call and another word on every other call
   (GuessesThirdTimeCorrectly; DoesNotGuessCorrectly and the closure are the case
   where the two words are the same) *)

ScriptWords == {moved, which, azzaz}
Scripts ==
    [hit_turn : 1..(TRIES_BEFORE_LOSS + 1), hit_word : ScriptWords, miss_word : ScriptWords]
NoScript == [hit_turn |-> 0, hit_word |-> NoWord, miss_word |-> NoWord]

ScriptedWord(sc, made) == IF made = sc.hit_turn THEN sc.hit_word ELSE sc.miss_word

ScriptedGuess ==
    /\ guesses_made' = guesses_made + 1
    /\ guessed_word' = ScriptedWord(script, guesses_made')
    /\ pc' = "turn"
    /\ UNCHANGED <<remaining, pool_before, scored>>

----------------------------------------------------------------------------
(* Wordle::play *)

\* InDictionary with the assertion compiled out
InDictionaryUnchecked(word) == TRUE
\* LastTry of a loop over 1..TRIES_BEFORE_LOSS instead of 1..=TRIES_BEFORE_LOSS
LastTryExclusive(n) == n = TRIES_BEFORE_LOSS - 1

Pending == [opt |-> "pending", turns |-> 0]
None == [opt |-> "None", turns |-> 0]
Some(n) == [opt |-> "Some", turns |-> n]

InDictionary(word) == word \in Dictionary
IsAnswer(word, ans) == word = ans
LastTry(n) == n = TRIES_BEFORE_LOSS
Guess(ans, word) == [word |-> word, mask |-> Graded[ans][word]]

\* let guessed_word = guesser.guess(&past_guesses[..]);
PlayGuess ==
    /\ pc = "call"
    /\ \/ kind = "scripted" /\ ScriptedGuess
       \/ kind = "unoptimized" /\ UnoptimizedGuess(past_guesses, "turn") /\ UNCHANGED guesses_made
    /\ returned' = IF pc' = "turn" THEN Append(returned, guessed_word') ELSE returned
    /\ UNCHANGED <<answer, rv, kind, script, initial, past_guesses, i, result>>

\* assert!(self.dictionary.contains(&guessed_word)) fails
PlayAssertFails ==
    /\ pc = "turn"
    /\ ~InDictionary(guessed_word)
    /\ pc' = "assert_failed"
    /\ UNCHANGED <<answer, guessed_word, rv, kind, script, guesses_made, remaining,
                   initial, pool_before, scored, past_guesses, i, result, returned>>

\* return Some(i)
PlayReturnsSome ==
    /\ pc = "turn"
    /\ InDictionary(guessed_word)
    /\ IsAnswer(guessed_word, answer)
    /\ result' = Some(i)
    /\ pc' = "done"
    /\ UNCHANGED <<answer, guessed_word, rv, kind, script, guesses_made, remaining,
                   initial, pool_before, scored, past_guesses, i, returned>>

\* the guess is graded and pushed, and the loop goes on
PlayRecords ==
    /\ pc = "turn"
    /\ InDictionary(guessed_word)
    /\ ~IsAnswer(guessed_word, answer)
    /\ ~LastTry(i)
    /\ past_guesses' = Append(past_guesses, Guess(answer, guessed_word))
    /\ i' = i + 1
    /\ pc' = "call"
    /\ UNCHANGED <<answer, guessed_word, rv, kind, script, guesses_made, remaining,
                   initial, pool_before, scored, result, returned>>

\* the guess of the last iteration is graded and pushed, the loop ends: None
PlayReturnsNone ==
    /\ pc = "turn"
    /\ InDictionary(guessed_word)
    /\ ~IsAnswer(guessed_word, answer)
    /\ LastTry(i)
    /\ past_guesses' = Append(past_guesses, Guess(answer, guessed_word))
    /\ result' = None
    /\ pc' = "done"
    /\ UNCHANGED <<answer, guessed_word, rv, kind, script, guesses_made, remaining,
                   initial, pool_before, scored, i, returned>>

InitPlay ==
    /\ pc = "call"
    /\ answer \in AllWords
    /\ guessed_word = NoWord
    /\ rv = <<>>
    /\ \/ /\ kind = "scripted"
          /\ script \in Scripts
          /\ remaining = EmptyPool
       \/ /\ kind = "unoptimized"
          /\ script = NoScript
          /\ remaining \in Pools
    /\ guesses_made = 0
    /\ initial = remaining
    /\ pool_before = remaining
    /\ scored = <<>>
    /\ past_guesses = <<>>
    /\ i = 1
    /\ result = Pending
    /\ returned = <<>>

NextPlay ==
    \/ PlayGuess
    \/ PlayAssertFails
    \/ PlayReturnsSome
    \/ PlayRecords
    \/ PlayReturnsNone

SpecPlay == InitPlay /\ [][NextPlay]_vars

\* play is sequential code: a step that can be taken is taken
FairSpecPlay == SpecPlay /\ WF_vars(NextPlay)

----------------------------------------------------------------------------
(* Unoptimized::guess called directly, as a test of the guesser would: each call
   is handed an empty slice or one guess graded against a hidden answer *)

Histories(ans) == {<<>>} \cup {<<Guess(ans, g)>> : g \in AllWords}

DirectGuess ==
    /\ pc = "direct"
    /\ \E past \in Histories(answer) :
          /\ past_guesses' = past
          /\ UnoptimizedGuess(past, "direct")
    /\ UNCHANGED <<answer, rv, kind, script, guesses_made, initial, i, result, returned>>

InitGuess ==
    /\ pc = "direct"
    /\ answer \in AllWords
    /\ guessed_word = NoWord
    /\ rv = <<>>
    /\ kind = "unoptimized"
    /\ script = NoScript
    /\ remaining \in Pools
    /\ guesses_made = 0
    /\ initial = remaining
    /\ pool_before = remaining
    /\ scored = <<>>
    /\ past_guesses = <<>>
    /\ i = 1
    /\ result = Pending
    /\ returned = <<>>

NextGuess == DirectGuess

SpecGuess == InitGuess /\ [][NextGuess]_vars

----------------------------------------------------------------------------
(* Correctness::check applied to one pair of words *)

CheckCall ==
    /\ pc = "check"
    /\ rv' = Check(answer, guessed_word)
    /\ pc' = "checked"
    /\ UNCHANGED <<answer, guessed_word, kind, script, guesses_made, remaining,
                   initial, pool_before, scored, past_guesses, i, result, returned>>

InitCheck ==
    /\ pc = "check"
    /\ \E pair \in CheckInputs : answer = pair[1] /\ guessed_word = pair[2]
    /\ rv = <<>>
    /\ kind = "none"
    /\ script = NoScript
    /\ guesses_made = 0
    /\ remaining = EmptyPool
    /\ initial = EmptyPool
    /\ pool_before = EmptyPool
    /\ scored = <<>>
    /\ past_guesses = <<>>
    /\ i = 1
    /\ result = Pending
    /\ returned = <<>>

NextCheck == CheckCall

SpecCheck == InitCheck /\ [][NextCheck]_vars

----------------------------------------------------------------------------
(* Properties of Correctness::check, under SpecCheck *)

Occurrences(w, c) == Cardinality({p \in Positions : w[p] = c})
Min(x, y) == IF x <= y THEN x ELSE y
Marked(c) ==
    {p \in Positions : guessed_word[p] = c /\ rv[p] \in {Correct, Misplaced}}
LettersOf(w) == {w[p] : p \in Positions}

\* C1: after check(answer, guess), for every letter c the positions of the guess
\* that hold c and are marked Correct or Misplaced number min(occurrences of c in
\* the answer, occurrences of c in the guess), and a position is Correct exactly
\* when guess and answer agree there.
C1_MarksMatchMinCount ==
    pc = "checked" =>
        /\ \A p \in Positions : (rv[p] = Correct) <=> (guessed_word[p] = answer[p])
        /\ \A c \in LettersOf(guessed_word) \cup LettersOf(answer) :
              Cardinality(Marked(c)) =
                  Min(Occurrences(answer, c), Occurrences(guessed_word, c))

\* a check where a letter occurs more often in the guess than in the answer, is in
\* the answer, and gets a Correct, a Misplaced and a Wrong mark
C1_Witness ==
    /\ pc = "checked"
    /\ \E c \in LettersOf(guessed_word) :
          /\ 0 < Occurrences(answer, c)
          /\ Occurrences(answer, c) < Occurrences(guessed_word, c)
          /\ \E p, q, r \in Positions :
                /\ guessed_word[p] = c /\ rv[p] = Correct
                /\ guessed_word[q] = c /\ rv[q] = Misplaced
                /\ guessed_word[r] = c /\ rv[r] = Wrong

EarlierNotCorrect(p) ==
    {j \in Positions : j < p /\ guessed_word[j] = guessed_word[p] /\ rv[j] # Correct}
Available(c) ==
    {k \in Positions : answer[k] = c /\ guessed_word[k] # c}

\* C8: after check(answer, guess), a position p that is not Correct is Misplaced
\* exactly when fewer non-Correct positions left of p hold the same letter than
\* the answer has occurrences of that letter at positions where the guess holds
\* another letter, and is Wrong otherwise; check("azzaz", "aaabb") is
\* [Correct, Misplaced, Wrong, Wrong, Wrong] and check("hello", "world") is
\* [Wrong, Misplaced, Wrong, Correct, Wrong].
C8_MisplacedGoesLeftmost ==
    pc = "checked" =>
        /\ \A p \in Positions :
              rv[p] # Correct =>
                  rv[p] = IF Cardinality(EarlierNotCorrect(p))
                                < Cardinality(Available(guessed_word[p]))
                          THEN Misplaced ELSE Wrong
        /\ (answer = azzaz /\ guessed_word = aaabb =>
               rv = <<Correct, Misplaced, Wrong, Wrong, Wrong>>)
        /\ (answer = hello /\ guessed_word = world =>
               rv = <<Wrong, Misplaced, Wrong, Correct, Wrong>>)

\* a check where of two non-Correct positions holding one letter the left one is
\* Misplaced and the right one is Wrong
C8_Witness ==
    /\ pc = "checked"
    /\ \E p, q \in Positions :
          /\ p < q
          /\ guessed_word[p] = guessed_word[q]
          /\ rv[p] = Misplaced
          /\ rv[q] = Wrong

----------------------------------------------------------------------------
(* Properties of Wordle::play, under SpecPlay *)

\* the calls on which the guesser returned the answer
Hits == {k \in 1..Len(returned) : returned[k] = answer}

\* C2: play calls the guesser once per turn and at most TRIES_BEFORE_LOSS times,
\* goes on to a next turn only while no guess has equalled the answer, returns
\* Some(k) only for k the first call that returned the answer, that call being
\* the last one made, and returns None only after TRIES_BEFORE_LOSS calls none of
\* which returned the answer; it does not abort while every guess is a
\* Dictionary word.
C2_PlayResult ==
    /\ Len(returned) <= TRIES_BEFORE_LOSS
    /\ (pc = "call" => Len(returned) = i - 1 /\ Hits = {})
    /\ (pc = "turn" => Len(returned) = i /\ Hits \subseteq {i})
    /\ (pc = "done" <=> result # Pending)
    /\ (pc = "done" /\ result # None =>
           /\ result.opt = "Some"
           /\ result.turns \in Hits
           /\ \A k \in Hits : result.turns <= k
           /\ Len(returned) = result.turns)
    /\ (pc = "done" /\ result = None =>
           /\ Hits = {}
           /\ Len(returned) = TRIES_BEFORE_LOSS)
    /\ ((\A k \in 1..Len(returned) : returned[k] \in Dictionary) => pc # "assert_failed")

\* the game of the guess_second_time_correctly test: Some(3) after three calls
C2_Witness ==
    /\ kind = "scripted"
    /\ pc = "done"
    /\ result = Some(3)
    /\ answer = moved
    /\ returned = <<which, which, moved>>

\* C3: every Guess of past_guesses holds a Dictionary word; play goes on to a next
\* turn or returns only while every word the guesser returned is a Dictionary
\* word; and a guess outside the Dictionary aborts play with no result and with
\* nothing pushed for it, also when it equals the answer.
C3_OnlyDictionaryWordsRecorded ==
    /\ \A k \in 1..Len(past_guesses) : past_guesses[k].word \in Dictionary
    /\ (pc \in {"call", "done"} =>
           \A k \in 1..Len(returned) : returned[k] \in Dictionary)
    /\ (pc = "assert_failed" =>
           /\ guessed_word \notin Dictionary
           /\ result = Pending
           /\ Len(past_guesses) = Len(returned) - 1)

\* play aborted on a guess outside the Dictionary that equals the answer, after
\* having recorded an earlier guess
C3_Witness ==
    /\ pc = "assert_failed"
    /\ guessed_word = answer
    /\ Len(past_guesses) >= 1

----------------------------------------------------------------------------
(* Properties of Unoptimized::guess inside play, under SpecPlay *)

AfterGuess == kind = "unoptimized" /\ pc \in {"turn", "expect_failed"}

\* the words of pool that every Guess of past allows as the answer
ConsistentWithAll(pool, past) ==
    Restrict(pool, {w \in DOMAIN pool :
                      \A k \in 1..Len(past) : Check(w, past[k].word) = past[k].mask})

\* C4: right after a call of the Entropy Guesser made by play, its pool is the
\* initial pool restricted to the words w with check(w, g.word) = g.mask for
\* every Guess g of the history it was called with, weights unchanged.
C4_PoolConsistentWithHistory ==
    AfterGuess => remaining = ConsistentWithAll(initial, past_guesses)

\* a call with two guesses in the history where the latest guess alone allows a
\* word of the initial pool that the pool no longer holds
C4_Witness ==
    /\ AfterGuess
    /\ Len(past_guesses) >= 2
    /\ remaining # ConsistentWithAll(initial, <<past_guesses[Len(past_guesses)]>>)

\* the outcome distribution of guessing W when the answer is drawn from the pool
OutcomeWeights(W, pool) ==
    [mask \in {Check(R, W) : R \in DOMAIN pool} |->
        SumCounts(pool, {R \in DOMAIN pool : Check(R, W) = mask})]

\* C5: the outcome groups the Entropy Guesser computes for a candidate W are the
\* masks check(R, W) of the pool words R taken as the answer with W as the guess,
\* each weighing the sum of the counts of the pool words that give it.
C5_MasksTreatPoolWordAsAnswer ==
    kind = "unoptimized" /\ pc = "turn" =>
        \A W \in DOMAIN remaining : scored[W].masks = OutcomeWeights(W, remaining)

F64GreaterEq(e1, e2) == F64Greater(e1, e2) \/ F64Equal(e1, e2)

\* C6: the word a call of the Entropy Guesser returns has a computed entropy
\* greater than or equal to that of every other word of the pool, and a count at
\* least that of every word whose computed entropy equals its own.
C6_ReturnedWordMaximisesEntropy ==
    kind = "unoptimized" /\ pc = "turn" =>
        \A w \in DOMAIN remaining \ {guessed_word} :
            /\ F64GreaterEq(scored[guessed_word].entropy, scored[w].entropy)
            /\ (F64Equal(scored[guessed_word].entropy, scored[w].entropy) =>
                   remaining[guessed_word] >= remaining[w])

\* the statement of C6 for the pools whose counts are all positive
C6_HoldsForPositiveCounts ==
    (\A w \in DOMAIN initial : initial[w] > 0) => C6_ReturnedWordMaximisesEntropy

\* C9: in a game of play with an Entropy Guesser whose initial pool holds the
\* answer, the pool holds the answer after every call and best.expect(...) never
\* panics; in any game, that panic is taken only with an empty pool.
C9_AnswerStaysInPool ==
    kind = "unoptimized" =>
        /\ (pc = "expect_failed" => DOMAIN remaining = {})
        /\ (answer \in DOMAIN initial =>
               /\ answer \in DOMAIN remaining
               /\ pc # "expect_failed")

\* a call after two recorded guesses whose prune removed words and kept the answer
C9_Witness ==
    /\ kind = "unoptimized"
    /\ pc = "turn"
    /\ answer \in DOMAIN initial
    /\ Len(past_guesses) >= 2
    /\ DOMAIN remaining # DOMAIN pool_before
    /\ answer \in DOMAIN remaining

C10_Pre ==
    /\ kind = "unoptimized"
    /\ DOMAIN initial \subseteq Dictionary
    /\ answer \in DOMAIN initial

C10_Safe ==
    C10_Pre =>
        /\ pc \notin {"assert_failed", "expect_failed"}
        /\ result # None
        /\ \A j, k \in 1..Len(returned) : j # k => returned[j] # returned[k]
        /\ (pc \in {"turn", "done"} =>
               /\ guessed_word \in DOMAIN remaining
               /\ \A k \in 1..Len(past_guesses) :
                     past_guesses[k].word \notin DOMAIN remaining
               /\ Cardinality(DOMAIN remaining)
                     <= Cardinality(DOMAIN initial) - Len(past_guesses))
        /\ (pc = "done" =>
               /\ result.opt = "Some"
               /\ result.turns \in 1..Cardinality(DOMAIN initial))

C10_Done == pc = "done"

\* C10: in a game of play with an Entropy Guesser whose initial pool has n <= 32
\* words, all of the Dictionary and one of them the answer, every guess is a word
\* of the current pool, no word is guessed twice, after each call the pool holds
\* none of the recorded guesses and at most n minus their number of words, play
\* never aborts and never returns None, and play returns Some(k) with k <= n.
C10_EntropyGameTerminates == []C10_Safe /\ (C10_Pre ~> C10_Done)

\* a game that needed as many turns as the initial pool has words, three or more
C10_Witness ==
    /\ C10_Pre
    /\ pc = "done"
    /\ result = Some(Cardinality(DOMAIN initial))
    /\ result.turns >= 3

----------------------------------------------------------------------------
(* Properties of Unoptimized::guess called directly, under SpecGuess *)

LastGuess == past_guesses[Len(past_guesses)]
PrunedOnAllCorrect == past_guesses # <<>> /\ LastGuess.mask = AllCorrect

\* C7, for any latest Guess: after a call whose latest Guess has an all-Correct
\* mask, the pool holds exactly the guessed word and the call returned that word.
C7_AllCorrectLeavesGuessedWord ==
    PrunedOnAllCorrect =>
        /\ DOMAIN remaining = {LastGuess.word}
        /\ pc = "direct"
        /\ guessed_word = LastGuess.word

\* C7, for a latest Guess on a word of the pool: after a call whose latest Guess
\* has an all-Correct mask and a word that was in the pool when the call was
\* made, the pool holds exactly the guessed word, with its count, and the call
\* returned that word.
C7_AllCorrectLeavesGuessedWordOfPool ==
    PrunedOnAllCorrect /\ LastGuess.word \in DOMAIN pool_before =>
        /\ remaining = Restrict(pool_before, {LastGuess.word})
        /\ pc = "direct"
        /\ guessed_word = LastGuess.word

\* a call that pruned a pool of three or more words down to the guessed word
C7_Witness ==
    /\ PrunedOnAllCorrect
    /\ LastGuess.word \in DOMAIN pool_before
    /\ Cardinality(DOMAIN pool_before) >= 3
    /\ DOMAIN remaining = {LastGuess.word}
    /\ guessed_word = LastGuess.word

====
